---------------------------- MODULE Spec2Model ----------------------------
(***************************************************************************)
(* A model of sec_filings (src/src/main.rs): the rate-limited SecClient,   *)
(* the four resolution stages (documents, filing_summaries,                *)
(* master_reports, balance_sheets) and the HTML statement-table parser.    *)
(*                                                                         *)
(* Strings are sequences of one-character strings, so that replace, split, *)
(* join, trim, to_lowercase and contains are computed character by         *)
(* character as the Rust standard library computes them.  An Option<T> is  *)
(* the empty sequence (None) or a one-element sequence (Some).             *)
(***************************************************************************)
EXTENDS Integers, Sequences, FiniteSets, TLC

VARIABLES
    now,            \* the monotonic clock (Instant::now()), in ticks
    time_start,     \* SecClient.time_start
    request_count,  \* SecClient.request_count (u8)
    time_now,       \* the clock value the last threshold_status call read
    reset,          \* the threshold_reset the last threshold_status call made:
                    \* "none", "expired" (line 86) or "slept" (line 95)
    recent,         \* recent[a+1]: requests sent exactly a ticks ago, a < one second
    requests,       \* the URLs of the GET requests sent by the pipeline, in order
    stage,          \* the function that runs (or has run), "idle" when none
    outcome,        \* "none" while it runs, then "ok", "panic" or the error returned
    input,          \* the argument of the first function of the run
    web,            \* what the server answers: a function from URL to response
    pos,            \* loop position of the running function (1-based index)
    parsed,         \* documents: the entries of the deserialized feed
    acc,            \* the Vec the running function accumulates and returns
    reports,        \* main's `reports`, the argument of balance_sheets
    table           \* the StatementData returned, with the diagnostics printed

fetcherVars == <<now, time_start, request_count, time_now, reset, recent>>
pipeVars == <<requests, stage, outcome, input, web, pos, parsed, acc, reports, table>>
vars == <<now, time_start, request_count, time_now, reset, recent,
          requests, stage, outcome, input, web, pos, parsed, acc, reports, table>>

-----------------------------------------------------------------------------
(* Bounds of the model *)

\* clock resolution: ticks in one second
TicksPerSecond == 2
\* the clock stops the free-running fetcher at this tick
MaxTime == 6
\* longest pause between two fetches, in ticks
MaxGap == 3
\* longest time sleep() overshoots the requested duration, in ticks
MaxOversleep == 1
\* most "/" in the path a feed link starts with
MaxSlashes == 10
\* most pieces appended to that path to make a feed link
MaxTailPieces == 2
\* most documents in the list given to filing_summaries
MaxDocs == 2
\* most items in a directory manifest
MaxItems == 2
\* most Report elements in a summary manifest
MaxReports == 3
\* most rows in the first table of an HTML document
MaxRows == 2

-----------------------------------------------------------------------------
(* SecClient: the rate window *)

request_threshold == 10

OneSecond == TicksPerSecond

\* Duration::saturating_sub
SaturatingSub(a, b) == IF a >= b THEN a - b ELSE 0

\* the window has expired: time_elapsed >= Duration::from_secs(1)
WindowExpired(time_elapsed) == time_elapsed >= OneSecond

\* the comparison with > in place of >=
ThresholdReachedOffByOne(count) == count > request_threshold

\* the budget of the window is used up
ThresholdReached(count) == count >= request_threshold

\* the operands of the subtraction exchanged
SleepNeededSwapped(time_elapsed) == SaturatingSub(time_elapsed, OneSecond)

\* how long threshold_status asks sleep() for
SleepNeeded(time_elapsed) == SaturatingSub(OneSecond, time_elapsed)

\* u8 addition (the count is at most request_threshold - 1 when it is incremented)
U8Add(a, b) == (a + b) % 256

\* the sliding record of requests after d more ticks
Age(rec, d) == [a \in 1..OneSecond |-> IF a - d >= 1 THEN rec[a - d] ELSE 0]

\* one more request sent at the current tick
Sent(rec) == [rec EXCEPT ![1] = @ + 1]

RECURSIVE SumSeq(_)
SumSeq(s) == IF s = <<>> THEN 0 ELSE Head(s) + SumSeq(Tail(s))

(***************************************************************************)
(* threshold_status followed by the send of the request.  The call starts  *)
(* d ticks after the previous one ended; sleep() returns `over` ticks      *)
(* later than asked.  The code between two clock reads takes no tick.      *)
(***************************************************************************)
ThresholdStatus(d, over) ==
    LET tn == now + d
        time_elapsed == tn - time_start
        expired == WindowExpired(time_elapsed)
        count1 == IF expired THEN 0 ELSE request_count
        start1 == IF expired THEN tn ELSE time_start
        full == ThresholdReached(count1)
        wake == tn + SleepNeeded(time_elapsed) + over
        end == IF full THEN wake ELSE tn
    IN  /\ time_now' = tn
        /\ now' = end
        /\ reset' = IF full THEN "slept" ELSE IF expired THEN "expired" ELSE "none"
        /\ time_start' = IF full THEN wake ELSE start1
        /\ request_count' = U8Add(IF full THEN 0 ELSE count1, 1)
        /\ recent' = Sent(Age(recent, end - now))

\* SecClient::new
FetcherInit ==
    /\ now = 0
    /\ time_start = 0
    /\ request_count = 0
    /\ time_now = 0
    /\ reset = "none"
    /\ recent = [a \in 1..OneSecond |-> 0]

\* no pipeline stage runs
PipeIdle ==
    /\ requests = <<>>
    /\ stage = "idle"
    /\ outcome = "none"
    /\ input = <<>>
    /\ web = <<>>
    /\ pos = 0
    /\ parsed = <<>>
    /\ acc = <<>>
    /\ reports = <<>>
    /\ table = <<>>

\* SecClient::get / get_with_params called by an arbitrary caller at an arbitrary time
Fetch ==
    \E d \in 0..MaxGap, over \in 0..MaxOversleep :
        /\ now + d + OneSecond + over <= MaxTime
        /\ ThresholdStatus(d, over)
        /\ UNCHANGED pipeVars

InitFetch == FetcherInit /\ PipeIdle
NextFetch == Fetch
SpecFetch == InitFetch /\ [][NextFetch]_vars

-----------------------------------------------------------------------------
(* Strings: str::replace, str::split, [&str]::join, Vec::remove *)

\* pat occurs in s at position i (1-based)
MatchesAt(s, i, pat) ==
    /\ i + Len(pat) - 1 <= Len(s)
    /\ \A k \in 1..Len(pat) : s[i + k - 1] = pat[k]

\* str::contains
Contains(s, pat) == \E i \in 1..(Len(s) + 1) : MatchesAt(s, i, pat)

\* where the first match of pat at or after position i starts (0: no match)
FindFrom(s, i, pat) ==
    LET found == {j \in i..(Len(s) + 1) : MatchesAt(s, j, pat)}
    IN  IF found = {} THEN 0
        ELSE CHOOSE j \in found : \A k \in found : j <= k

\* str::replace: every non-overlapping match of pat, left to right (pat not empty)
RECURSIVE ReplaceFrom(_, _, _, _)
ReplaceFrom(s, i, pat, rep) ==
    LET j == FindFrom(s, i, pat)
    IN  IF j = 0 THEN SubSeq(s, i, Len(s))
        ELSE SubSeq(s, i, j - 1) \o rep \o ReplaceFrom(s, j + Len(pat), pat, rep)

Replace(s, pat, rep) == ReplaceFrom(s, 1, pat, rep)

\* str::split: the pieces between the matches of sep, empty pieces kept
RECURSIVE SplitFrom(_, _, _)
SplitFrom(s, i, sep) ==
    LET j == FindFrom(s, i, sep)
    IN  IF j = 0 THEN <<SubSeq(s, i, Len(s))>>
        ELSE <<SubSeq(s, i, j - 1)>> \o SplitFrom(s, j + Len(sep), sep)

Split(s, sep) == SplitFrom(s, 1, sep)

\* [&str]::join
RECURSIVE Join(_, _)
Join(items, sep) ==
    IF items = <<>> THEN <<>>
    ELSE IF Len(items) = 1 THEN items[1]
    ELSE items[1] \o sep \o Join(Tail(items), sep)

\* Vec::remove(index), index 0-based and in range
RemoveAt(items, index) ==
    SubSeq(items, 1, index) \o SubSeq(items, index + 2, Len(items))

-----------------------------------------------------------------------------
(* documents: the filing index resolver *)

Hyphen == <<"-">>
Slash == <<"/">>
IndexHtml == <<"-", "i", "n", "d", "e", "x", ".", "h", "t", "m", "l">>
IndexHtm == <<"-", "i", "n", "d", "e", "x", ".", "h", "t", "m">>
IndexJson == <<"/", "i", "n", "d", "e", "x", ".", "j", "s", "o", "n">>

\* the comparison with >= in place of ==
SplitItemsAtLeastTen(n) == n >= 10

\* split_items.len() == 10
SplitItemsIsTen(n) == n = 10

\* the rewrite of one entry's link (the loop body of documents)
NormalizeUrl(href) ==
    LET documents_url ==
            Replace(Replace(Replace(href, IndexHtml, IndexJson),
                            IndexHtm, IndexJson), Hyphen, <<>>)
        split_items == Split(documents_url, Slash)
    IN  IF SplitItemsIsTen(Len(split_items))
        THEN Join(RemoveAt(split_items, 7), Slash)
        ELSE documents_url

\* what the server sends back: a transport failure, or a body
Garbage == [format |-> "garbage"]
TransportFailure == [kind |-> "fail", body |-> Garbage]
Text(body) == [kind |-> "text", body |-> body]

\* the answer to a GET of url (AnyUrl stands for every URL web does not list)
AnyUrl == <<"*">>
Respond(url) ==
    IF url \in DOMAIN web THEN web[url]
    ELSE IF AnyUrl \in DOMAIN web THEN web[AnyUrl]
    ELSE Text(Garbage)

\* SecClient::get / get_with_params as a stage calls it: the rate window, then
\* the request.  The stages call back to back (no tick passes between two
\* calls); SpecFetch is where the calls come at arbitrary times.
PipeGet(url) ==
    \E over \in 0..MaxOversleep :
        /\ ThresholdStatus(0, over)
        /\ requests' = Append(requests, url)

\* the function returns (or panics) with this outcome
Return(result) ==
    /\ outcome' = result
    /\ pos' = pos

SearchUrl == <<"h", "t", "t", "p", "s", ":", "/", "/", "w", "w", "w", ".", "s", "e", "c", ".", "g", "o", "v", "/", "c", "g", "i", "-", "b", "i", "n", "/", "b", "r", "o", "w", "s", "e", "-", "e", "d", "g", "a", "r">>

\* an Atom feed whose entries carry these links
Feed(entries) == [format |-> "atom", entries |-> entries]

\* documents, lines 131-148: the query, then the feed deserialized
DocumentsFetch ==
    /\ stage = "documents" /\ outcome = "none" /\ pos = 0
    /\ PipeGet(SearchUrl)
    /\ LET response == Respond(SearchUrl)
       IN  IF response.kind = "fail"
           THEN Return("err:reqwest") /\ UNCHANGED parsed
           ELSE IF response.body.format # "atom"
           THEN Return("err:xml") /\ UNCHANGED parsed
           ELSE outcome' = outcome /\ pos' = 1 /\ parsed' = response.body.entries
    /\ UNCHANGED <<stage, input, web, acc, reports, table>>

\* documents, lines 150-166: one entry of the feed
DocumentsEntry ==
    /\ stage = "documents" /\ outcome = "none"
    /\ pos >= 1 /\ pos <= Len(parsed)
    /\ acc' = Append(acc, NormalizeUrl(parsed[pos]))
    /\ pos' = pos + 1
    /\ UNCHANGED <<stage, outcome, input, web, parsed, reports, table>>
    /\ UNCHANGED <<fetcherVars, requests>>

\* documents, line 167
DocumentsReturn ==
    /\ stage = "documents" /\ outcome = "none"
    /\ pos > Len(parsed)
    /\ Return("ok")
    /\ UNCHANGED <<stage, input, web, parsed, acc, reports, table>>
    /\ UNCHANGED <<fetcherVars, requests>>

\* the links the model's feeds carry: a path of k one-letter segments followed by
\* a few pieces, among them the two index suffixes and a near miss
RECURSIVE Path(_)
Path(k) == IF k = 0 THEN <<>> ELSE <<"a", "/">> \o Path(k - 1)

Pieces == {Slash, Hyphen, <<"b">>, IndexHtm, IndexHtml, <<"-", "i", "n", "d", "e", "x", ".", "h", "t">>}

RECURSIVE Tails(_)
Tails(n) ==
    IF n = 0 THEN {<<>>}
    ELSE Tails(n - 1) \cup {t \o p : t \in Tails(n - 1), p \in Pieces}

Links == {Path(k) \o t : k \in 0..MaxSlashes, t \in Tails(MaxTailPieces)}

\* a link of the shape the search endpoint returns
FilingHref == <<"h", "t", "t", "p", "s", ":", "/", "/", "w", "w", "w", ".", "s", "e", "c", ".", "g", "o", "v", "/", "A", "r", "c", "h", "i", "v", "e", "s", "/", "e", "d", "g", "a", "r", "/", "d", "a", "t", "a", "/", "3", "2", "0", "1", "9", "3", "/", "0", "0", "0", "0", "3", "2", "0", "1", "9", "3", "2", "4", "0", "0", "0", "0", "8", "1", "/", "0", "0", "0", "0", "3", "2", "0", "1", "9", "3", "-", "2", "4", "-", "0", "0", "0", "0", "8", "1", "-", "i", "n", "d", "e", "x", ".", "h", "t", "m">>


-----------------------------------------------------------------------------
(* filing_summaries: the directory listing resolver *)

\* every sequence over S of length at most n
SeqsUpTo(S, n) == UNION {[1..k -> S] : k \in 0..n}

FilingSummaryXml == <<"F", "i", "l", "i", "n", "g", "S", "u", "m", "m", "a", "r", "y", ".", "x", "m", "l">>
SecGov == <<"h", "t", "t", "p", "s", ":", "/", "/", "w", "w", "w", ".", "s", "e", "c", ".", "g", "o", "v">>

\* the slice &documents_list[0..1] ends here
SliceEnd == 1

\* a directory manifest: directory.name as a string, directory.item as an array
\* (None when missing or of another JSON type); an item's name likewise
Directory(name, item) == [format |-> "json", name |-> name, item |-> item]

\* format!("{}/{}/{}", base_url, dir_name, "FilingSummary.xml")
SummaryUrl(dir_name) == SecGov \o Slash \o dir_name \o Slash \o FilingSummaryXml

\* lines 197-206: the first item named FilingSummary.xml ends the scan
RECURSIVE ScanItems(_, _, _)
ScanItems(items, i, dir_name) ==
    IF i > Len(items) THEN <<>>
    ELSE IF items[i] = <<FilingSummaryXml>> THEN <<SummaryUrl(dir_name)>>
    ELSE ScanItems(items, i + 1, dir_name)

\* line 179: taking the slice panics when the list is shorter than its end
FilingSummariesSlice ==
    /\ stage = "filing_summaries" /\ outcome = "none" /\ pos = 0
    /\ IF Len(input) < SliceEnd
       THEN Return("panic")
       ELSE outcome' = outcome /\ pos' = 1
    /\ UNCHANGED <<stage, input, web, parsed, acc, reports, table>>
    /\ UNCHANGED <<fetcherVars, requests>>

\* lines 179-218: one document of the slice
FilingSummariesDocument ==
    /\ stage = "filing_summaries" /\ outcome = "none"
    /\ pos >= 1 /\ pos <= SliceEnd
    /\ PipeGet(input[pos])
    /\ LET response == Respond(input[pos])
           json_data == response.body
       IN  IF response.kind = "fail"
           THEN Return("panic") /\ UNCHANGED acc
           ELSE IF json_data.format # "json"
           THEN Return("err:serde_json") /\ UNCHANGED acc
           ELSE IF json_data.name = <<>> \/ json_data.item = <<>>
           THEN Return("err:message") /\ UNCHANGED acc
           ELSE LET xml_summary_url ==
                        ScanItems(json_data.item[1], 1, json_data.name[1])
                IN  /\ acc' = IF xml_summary_url # <<>>
                              THEN Append(acc, xml_summary_url[1])
                              ELSE acc
                    /\ pos' = pos + 1
                    /\ outcome' = outcome
    /\ UNCHANGED <<stage, input, web, parsed, reports, table>>

\* line 220
FilingSummariesReturn ==
    /\ stage = "filing_summaries" /\ outcome = "none"
    /\ pos > SliceEnd
    /\ Return("ok")
    /\ UNCHANGED <<stage, input, web, parsed, acc, reports, table>>
    /\ UNCHANGED <<fetcherVars, requests>>

-----------------------------------------------------------------------------
(* master_reports: the summary manifest resolver *)

\* a summary manifest: the Report elements of MyReports, each with its optional
\* ShortName, HtmlFileName and XmlFileName
Manifest(report_list) == [format |-> "xml", reports |-> report_list]

Report(shortname, htmlfilename, xmlfilename) ==
    [shortname |-> shortname, htmlfilename |-> htmlfilename,
     xmlfilename |-> xmlfilename]

\* Option::unwrap_or_default on an Option<String>
UnwrapOrDefault(option) == IF option = <<>> THEN <<>> ELSE option[1]

\* Option::or
Or(a, b) == IF a # <<>> THEN a ELSE b

\* the pop left out
NeverPopped(report_list) == report_list

\* lines 270-273: the last report is dropped when there is more than one
Popped(report_list) ==
    IF Len(report_list) > 1
    THEN SubSeq(report_list, 1, Len(report_list) - 1)
    ELSE report_list

\* a default file name in place of the empty one
DefaultFile(report) ==
    IF report.htmlfilename = <<>> /\ report.xmlfilename = <<>>
    THEN <<"R", ".", "h", "t", "m">>
    ELSE UnwrapOrDefault(Or(report.htmlfilename, report.xmlfilename))

\* line 278
File(report) == UnwrapOrDefault(Or(report.htmlfilename, report.xmlfilename))

\* lines 276-284: the (shortname, url) pairs of one manifest
Descriptors(base_url, report_list) ==
    [k \in 1..Len(report_list) |->
        <<UnwrapOrDefault(report_list[k].shortname),
          base_url \o File(report_list[k])>>]

\* lines 257-285: one summary manifest
MasterReportsSummary ==
    /\ stage = "master_reports" /\ outcome = "none"
    /\ pos >= 1 /\ pos <= Len(input)
    /\ PipeGet(input[pos])
    /\ LET xml_url == input[pos]
           response == Respond(xml_url)
           base_url == Replace(xml_url, FilingSummaryXml, <<>>)
       IN  IF response.kind = "fail"
           THEN Return("err:reqwest") /\ UNCHANGED acc
           ELSE IF response.body.format # "xml"
           THEN Return("err:serde_xml") /\ UNCHANGED acc
           ELSE /\ acc' = acc \o Descriptors(base_url, Popped(response.body.reports))
                /\ pos' = pos + 1
                /\ outcome' = outcome
    /\ UNCHANGED <<stage, input, web, parsed, reports, table>>

\* line 286
MasterReportsReturn ==
    /\ stage = "master_reports" /\ outcome = "none"
    /\ pos > Len(input)
    /\ Return("ok")
    /\ UNCHANGED <<stage, input, web, parsed, acc, reports, table>>
    /\ UNCHANGED <<fetcherVars, requests>>

-----------------------------------------------------------------------------
(* parse_html_statement_data: the HTML table extractor *)

\* an HTML document: its table elements in document order.  A table is the
\* sequence of its tr elements; a Row holds the th and the td elements under the
\* tr (each the sequence of its text nodes) and the number of strong elements.
Html(tables) == [format |-> "html", tables |-> tables]

Row(ths, tds, strongs) == [ths |-> ths, tds |-> tds, strongs |-> strongs]

Whitespace == {" ", "\n", "\t"}

\* str::trim
Trim(text) ==
    LET kept == {k \in 1..Len(text) : text[k] \notin Whitespace}
    IN  IF kept = {} THEN <<>>
        ELSE SubSeq(text, CHOOSE k \in kept : \A j \in kept : k <= j,
                          CHOOSE k \in kept : \A j \in kept : k >= j)

\* col.text().collect::<Vec<_>>().join(" ").trim().to_string()
CellText(cell) == Trim(Join(cell, <<" ">>))

\* the first two branches exchanged
SectionBeforeHeader(row) ==
    IF row.tds # <<>> /\ row.strongs > 0 THEN "section"
    ELSE IF row.ths # <<>> THEN "header"
    ELSE IF row.tds # <<>> /\ row.strongs = 0 THEN "data"
    ELSE "unrecognized"

\* lines 328, 336, 343, 350: the branch a row takes
Classify(row) ==
    IF row.ths # <<>> THEN "header"
    ELSE IF row.tds # <<>> /\ row.strongs > 0 THEN "section"
    ELSE IF row.tds # <<>> /\ row.strongs = 0 THEN "data"
    ELSE "unrecognized"

\* lines 304-308, with the lines printed so far
EmptyStatementData ==
    [headers |-> <<>>, sections |-> <<>>, data |-> <<>>, printed |-> <<>>]

\* lines 322-353: the rows from the i-th on, statement_data being the result so far
RECURSIVE ParseRows(_, _, _)
ParseRows(rows, i, statement_data) ==
    IF i > Len(rows) THEN statement_data
    ELSE LET tr == rows[i]
             kind == Classify(tr)
             next ==
                 IF kind = "header"
                 THEN [statement_data EXCEPT !.headers =
                          Append(@, [c \in 1..Len(tr.ths) |-> CellText(tr.ths[c])])]
                 ELSE IF kind = "section"
                 THEN [statement_data EXCEPT !.sections =
                          Append(@, CellText(tr.tds[1]))]
                 ELSE IF kind = "data"
                 THEN [statement_data EXCEPT !.data =
                          Append(@, [c \in 1..Len(tr.tds) |-> CellText(tr.tds[c])])]
                 ELSE [statement_data EXCEPT !.printed = Append(@, "tr")]
         IN  ParseRows(rows, i + 1, next)

\* the table elements Html::parse_document finds in a response body
TablesOf(body) == IF body.format = "html" THEN body.tables ELSE <<>>

\* parse_html_statement_data
ParseHtmlStatementData(body) ==
    IF TablesOf(body) # <<>>
    THEN ParseRows(TablesOf(body)[1], 1, EmptyStatementData)
    ELSE [EmptyStatementData EXCEPT !.printed = <<"table">>]

\* a caller hands the document in `input` to parse_html_statement_data
ParseHtml ==
    /\ stage = "parse_html_statement_data" /\ outcome = "none"
    /\ table' = ParseHtmlStatementData(input)
    /\ Return("ok")
    /\ UNCHANGED <<stage, input, web, parsed, acc, reports>>
    /\ UNCHANGED <<fetcherVars, requests>>

-----------------------------------------------------------------------------
(* balance_sheets: the statement selector *)

UpperCase == <<"A", "B", "C", "D", "E", "F", "G", "H", "I", "J", "K", "L", "M", "N", "O", "P", "Q", "R", "S", "T", "U", "V", "W", "X", "Y", "Z">>
LowerCase == <<"a", "b", "c", "d", "e", "f", "g", "h", "i", "j", "k", "l", "m", "n", "o", "p", "q", "r", "s", "t", "u", "v", "w", "x", "y", "z">>

\* the name compared as it is
KeepCase(name) == name

\* str::to_lowercase (on ASCII text)
ToLowercase(name) ==
    [k \in 1..Len(name) |->
        IF \E u \in 1..Len(UpperCase) : UpperCase[u] = name[k]
        THEN LowerCase[CHOOSE u \in 1..Len(UpperCase) : UpperCase[u] = name[k]]
        ELSE name[k]]

keywords == <<<<"b", "a", "l", "a", "n", "c", "e", " ", "s", "h", "e", "e", "t", "s">>,
              <<"f", "i", "n", "a", "n", "c", "i", "a", "l", " ", "c", "o", "n", "d", "i", "t", "i", "o", "n">>>>

\* line 373
HasKeyword(name) ==
    \E k \in 1..Len(keywords) : Contains(ToLowercase(name), keywords[k])

\* main, lines 418 and 428: the reports master_reports returned go to balance_sheets
MainBalanceSheets ==
    /\ stage = "master_reports" /\ outcome = "ok"
    /\ stage' = "balance_sheets"
    /\ outcome' = "none"
    /\ reports' = acc
    /\ pos' = 1
    /\ UNCHANGED <<input, web, parsed, acc, table>>
    /\ UNCHANGED <<fetcherVars, requests>>

\* lines 372-385: one (name, url) pair
BalanceSheetsDescriptor ==
    /\ stage = "balance_sheets" /\ outcome = "none"
    /\ pos >= 1 /\ pos <= Len(reports)
    /\ LET name == reports[pos][1]
           url == reports[pos][2]
       IN  IF HasKeyword(name)
           THEN /\ PipeGet(url)
                /\ IF Respond(url).kind = "fail"
                   THEN Return("err:reqwest") /\ UNCHANGED table
                   ELSE /\ table' = ParseHtmlStatementData(Respond(url).body)
                        /\ Return("ok")
           ELSE /\ pos' = pos + 1
                /\ UNCHANGED <<outcome, table, fetcherVars, requests>>
    /\ UNCHANGED <<stage, input, web, parsed, acc, reports>>

\* lines 387-390
BalanceSheetsNotFound ==
    /\ stage = "balance_sheets" /\ outcome = "none"
    /\ pos > Len(reports)
    /\ Return("err:io")
    /\ UNCHANGED <<stage, input, web, parsed, acc, reports, table>>
    /\ UNCHANGED <<fetcherVars, requests>>

-----------------------------------------------------------------------------
(* The calls the model starts from, and what the server answers *)

\* nothing has run yet
Fresh(function, first) ==
    /\ FetcherInit
    /\ requests = <<>>
    /\ stage = function /\ outcome = "none" /\ pos = first
    /\ parsed = <<>> /\ acc = <<>> /\ reports = <<>> /\ table = <<>>

Dir1 == <<"A", "r", "c", "h", "i", "v", "e", "s", "/", "d", "1">>
Dir2 == <<"A", "r", "c", "h", "i", "v", "e", "s", "/", "d", "2">>
Doc1 == SecGov \o Slash \o Dir1 \o <<"/", "i", "n", "d", "e", "x", ".", "j", "s", "o", "n">>
Doc2 == SecGov \o Slash \o Dir2 \o <<"/", "i", "n", "d", "e", "x", ".", "j", "s", "o", "n">>

ItemNames == {<<>>, <<FilingSummaryXml>>, <<<<"f", "i", "l", "i", "n", "g", "s", "u", "m", "m", "a", "r", "y", ".", "x", "m", "l">>>>, <<<<"R", "1", ".", "h", "t", "m">>>>}

DirResponses ==
    {TransportFailure, Text(Garbage)}
        \cup {Text(Directory(name, item)) :
                name \in {<<>>, <<Dir1>>},
                item \in {<<>>} \cup {<<items>> : items \in SeqsUpTo(ItemNames, MaxItems)}}

OtherDirResponses ==
    {TransportFailure,
     Text(Directory(<<Dir2>>, << <<<<FilingSummaryXml>>>> >>)),
     Text(Directory(<<Dir2>>, << <<<<<<"R", "1", ".", "h", "t", "m">>>>>> >>))}

Cover == <<"C", "o", "v", "e", "r">>
BalanceSheetsUnaudited == <<"B", "a", "l", "a", "n", "c", "e", " ", "S", "h", "e", "e", "t", "s", " ", "(", "U", "n", "a", "u", "d", "i", "t", "e", "d", ")">>
BalanceSheet == <<"B", "a", "l", "a", "n", "c", "e", " ", "s", "h", "e", "e", "t">>
FinancialCondition == <<"S", "T", "A", "T", "E", "M", "E", "N", "T", " ", "O", "F", " ", "F", "I", "N", "A", "N", "C", "I", "A", "L", " ", "C", "O", "N", "D", "I", "T", "I", "O", "N">>
R2Htm == <<"R", "2", ".", "h", "t", "m">>
R2Xml == <<"R", "2", ".", "x", "m", "l">>
R4Htm == <<"R", "4", ".", "h", "t", "m">>
R4Xml == <<"R", "4", ".", "x", "m", "l">>

ReportSet ==
    {Report(n, h, x) : n \in {<<>>, <<BalanceSheetsUnaudited>>},
                       h \in {<<>>, <<R2Htm>>}, x \in {<<>>, <<R2Xml>>}}

XmlResponses ==
    {TransportFailure, Text(Garbage)}
        \cup {Text(Manifest(rs)) : rs \in SeqsUpTo(ReportSet, MaxReports)}

OtherReports ==
    <<Report(<<BalanceSheet>>, <<R4Htm>>, <<R4Xml>>),
      Report(<<FinancialCondition>>, <<>>, <<R4Xml>>),
      Report(<<Cover>>, <<>>, <<>>)>>

CellA == << <<" ", "T", "o", "t", "a", "l">>, <<"a", "s", "s", "e", "t", "s", " ">> >>
CellB == << <<"\n", "1", "0", " ">> >>

Rows ==
    {Row(ths, tds, strongs) : ths \in {<<>>, <<CellA>>, <<CellB>>},
                              tds \in {<<>>, <<CellB>>, <<CellB, CellA>>},
                              strongs \in {0, 1}}

SampleTable ==
    <<Row(<<CellA, CellA>>, <<>>, 0), Row(<<>>, <<CellA, CellB>>, 1),
      Row(<<>>, <<CellA, CellB>>, 0), Row(<<>>, <<>>, 0)>>

Htmls ==
    {Garbage, Html(<<>>)}
        \cup {Html(<<t>>) : t \in SeqsUpTo(Rows, MaxRows)}
        \cup {Html(<<t, SampleTable>>) : t \in SeqsUpTo(Rows, MaxRows)}

DocumentsInput ==
    /\ Fresh("documents", 0)
    /\ input = <<>>
    /\ \E response \in {TransportFailure, Text(Garbage), Text(Feed(<<>>)),
                        Text(Feed(<<FilingHref>>)),
                        Text(Feed(<<FilingHref, Path(MaxSlashes)>>))} :
          web = (SearchUrl :> response)

FilingSummariesInput ==
    /\ Fresh("filing_summaries", 0)
    /\ input \in SeqsUpTo({Doc1, Doc2}, MaxDocs)
    /\ \E r1 \in DirResponses, r2 \in OtherDirResponses :
          web = (Doc1 :> r1) @@ (Doc2 :> r2)

MasterReportsInput ==
    /\ Fresh("master_reports", 1)
    /\ input \in {<<>>, <<SummaryUrl(Dir1)>>, <<SummaryUrl(Dir1), SummaryUrl(Dir2)>>}
    /\ \E r1 \in XmlResponses,
          h \in {TransportFailure, Text(Html(<<SampleTable>>))} :
          web = (SummaryUrl(Dir1) :> r1)
                    @@ (SummaryUrl(Dir2) :> Text(Manifest(OtherReports)))
                    @@ (AnyUrl :> h)

ParseHtmlInput ==
    /\ Fresh("parse_html_statement_data", 0)
    /\ input \in Htmls
    /\ web = <<>>

\* the pipeline stages, each called on its own (master_reports followed by
\* balance_sheets as in main)
Init == DocumentsInput \/ FilingSummariesInput \/ MasterReportsInput
Next ==
    \/ DocumentsFetch \/ DocumentsEntry \/ DocumentsReturn
    \/ FilingSummariesSlice \/ FilingSummariesDocument \/ FilingSummariesReturn
    \/ MasterReportsSummary \/ MasterReportsReturn
    \/ MainBalanceSheets \/ BalanceSheetsDescriptor \/ BalanceSheetsNotFound
Spec == Init /\ [][Next]_vars

\* documents called on its own, over the links of the model
InitUrl ==
    /\ Fresh("documents", 0)
    /\ input = <<>>
    /\ \E response \in {TransportFailure, Text(Garbage), Text(Feed(<<>>))}
                \cup {Text(Feed(<<l>>)) : l \in Links}
                \cup {Text(Feed(<<FilingHref, Path(k)>>)) : k \in 0..MaxSlashes} :
          web = (SearchUrl :> response)
NextUrl == DocumentsFetch \/ DocumentsEntry \/ DocumentsReturn
SpecUrl == InitUrl /\ [][NextUrl]_vars

\* parse_html_statement_data called on its own
InitTable == ParseHtmlInput
NextTable == ParseHtml
SpecTable == InitTable /\ [][NextTable]_vars

-----------------------------------------------------------------------------
\* C1: request_count never exceeds request_threshold; a fetch that found the
\* count at the limit slept and restarted the window before incrementing, and a
\* fetch arriving one second or more after time_start restarted it too (so the
\* count is 1 after either).
CountWithinThreshold ==
    /\ request_count <= request_threshold
    /\ reset = "slept" => request_count = 1 /\ time_start = now
    /\ reset = "expired" => request_count = 1 /\ time_start = time_now

\* the budget of a window that began after an earlier one ended is used up
CountAtThreshold == request_count = request_threshold /\ time_start > 0

\* C2: a fetch that finds the count at the limit less than one second after the
\* window start is delayed by at least one second minus the elapsed time, and the
\* window restarts at the end of the delay, before the request is sent.
DelayedAtLimit ==
    [][(/\ request_count = request_threshold
        /\ time_now' - time_start < OneSecond)
       => (/\ now' - time_now' >= OneSecond - (time_now' - time_start)
           /\ reset' = "slept"
           /\ time_start' = now'
           /\ request_count' = 1
           /\ recent'[1] >= 1)]_vars

\* the last fetch found the count at the limit and slept for a tick or more
SleptAtLimit == reset = "slept" /\ now - time_now >= 1 /\ request_count = 1

\* C3: at most request_threshold requests are sent within any interval of one
\* second (the requests of the last OneSecond ticks, the current one included).
SlidingBudget == SumSeq(recent) <= request_threshold

\* C9: the URL rewrite is idempotent: rewriting a rewritten link changes nothing;
\* a rewritten link holds no hyphen and never splits on "/" into exactly 10 pieces.
NormalizeIdempotent ==
    stage = "documents" =>
        \A i \in 1..Len(acc) :
            /\ NormalizeUrl(acc[i]) = acc[i]
            /\ ~Contains(acc[i], Hyphen)
            /\ Len(Split(acc[i], Slash)) # 10

\* a link with an index suffix that split into 10 pieces was rewritten to 9 pieces
NormalizedTenSegments ==
    /\ stage = "documents" /\ outcome = "ok" /\ Len(acc) >= 1
    /\ Contains(parsed[1], IndexHtm)
    /\ Len(Split(acc[1], Slash)) = 9
    /\ acc[1] # parsed[1]

-----------------------------------------------------------------------------
(* What the claims about the stages refer to *)

\* the directory at doc answers with a manifest that has a name and an item list
WellFormedDirectory(doc) ==
    /\ Respond(doc).kind = "text"
    /\ Respond(doc).body.format = "json"
    /\ Respond(doc).body.name # <<>>
    /\ Respond(doc).body.item # <<>>

\* its item list holds an item named exactly FilingSummary.xml
ListsSummary(doc) ==
    \E k \in 1..Len(Respond(doc).body.item[1]) :
        Respond(doc).body.item[1][k] = <<FilingSummaryXml>>

\* the summary URLs of the directories of docs that list the item, in order
RECURSIVE SummariesOf(_)
SummariesOf(docs) ==
    IF docs = <<>> THEN <<>>
    ELSE (IF ListsSummary(Head(docs))
          THEN <<SecGov \o Slash \o Respond(Head(docs)).body.name[1]
                    \o Slash \o FilingSummaryXml>>
          ELSE <<>>) \o SummariesOf(Tail(docs))

\* C4: filing_summaries examines every directory of its list in order, skips the
\* ones without an item named FilingSummary.xml, and returns the summary URLs of
\* exactly the others (for the empty list, the empty result).
EveryDirectoryExamined ==
    (/\ stage = "filing_summaries" /\ outcome # "none"
     /\ \A k \in 1..Len(input) : WellFormedDirectory(input[k]))
    => (outcome = "ok" /\ acc = SummariesOf(input))

\* C5: a fetch that fails in transport is the last request of its stage, and the
\* stage returns the error to its caller (it does not panic).
FailureReportedUpward ==
    \A k \in 1..Len(requests) :
        Respond(requests[k]).kind = "fail"
            => (k = Len(requests) /\ outcome = "err:reqwest")

\* a manifest URL without its trailing file name
BaseOf(xml_url) == SubSeq(xml_url, 1, Len(xml_url) - Len(FilingSummaryXml))

\* N reports: all of them when N <= 1, all but the last when N > 1
AllButLastIfSeveral(rs) ==
    IF Len(rs) > 1 THEN [j \in 1..(Len(rs) - 1) |-> rs[j]] ELSE rs

\* the reports the descriptors come from, with the base URL of their manifest,
\* over the manifests from the k-th on
RECURSIVE OriginFrom(_)
OriginFrom(k) ==
    IF k > Len(input) THEN <<>>
    ELSE LET kept == AllButLastIfSeveral(Respond(input[k]).body.reports)
         IN  [j \in 1..Len(kept) |-> [report |-> kept[j], base |-> BaseOf(input[k])]]
                 \o OriginFrom(k + 1)

Origin == OriginFrom(1)

\* the file name the claim gives a report: HTML when present, else XML, else empty
PreferredFile(report) ==
    IF report.htmlfilename # <<>> THEN report.htmlfilename[1]
    ELSE IF report.xmlfilename # <<>> THEN report.xmlfilename[1]
    ELSE <<>>

NoFile(report) == report.htmlfilename = <<>> /\ report.xmlfilename = <<>>

\* C6: a manifest with N reports yields N - 1 descriptors when N > 1 and N when
\* N <= 1, in report order, each with the base URL followed by the HTML file name
\* when there is one, else the XML file name, else nothing.
ManifestResolved ==
    (stage = "master_reports" /\ outcome = "ok")
    => /\ Len(acc) = Len(Origin)
       /\ \A j \in 1..Len(Origin) :
             /\ acc[j][2] = Origin[j].base \o PreferredFile(Origin[j].report)
             /\ acc[j][1] = (IF Origin[j].report.shortname = <<>> THEN <<>>
                             ELSE Origin[j].report.shortname[1])
       /\ Len(input) = 1 =>
             LET N == Len(Respond(input[1]).body.reports)
             IN  Len(acc) = IF N > 1 THEN N - 1 ELSE N

\* three reports, the first with both file names, resolved to two descriptors
ThreeReportsResolved ==
    /\ stage = "master_reports" /\ outcome = "ok" /\ Len(input) = 1
    /\ Len(Respond(input[1]).body.reports) = 3
    /\ Respond(input[1]).body.reports[1].htmlfilename # <<>>
    /\ Respond(input[1]).body.reports[1].xmlfilename # <<>>
    /\ Respond(input[1]).body.reports[2].htmlfilename = <<>>
    /\ Len(acc) = 2

\* the requests balance_sheets sent (master_reports sent one per manifest)
SentBySelector == SubSeq(requests, Len(input) + 1, Len(requests))

\* the short names of the model that hold a keyword in some letter case
NamesWithKeyword == {BalanceSheetsUnaudited, FinancialCondition}

Matching == {k \in 1..Len(reports) : reports[k][1] \in NamesWithKeyword}

FirstMatching == CHOOSE k \in Matching : \A j \in Matching : k <= j

\* C7: balance_sheets fetches the URL of the first descriptor whose short name
\* holds a keyword in any letter case, and nothing else; without such a
\* descriptor it fetches nothing and returns the not-found error.
FirstMatchSelected ==
    stage = "balance_sheets" =>
        IF outcome = "none"
        THEN SentBySelector = <<>> /\ \A k \in Matching : k >= pos
        ELSE IF Matching = {}
        THEN outcome = "err:io" /\ SentBySelector = <<>>
        ELSE /\ SentBySelector = <<reports[FirstMatching][2]>>
             /\ outcome \in {"ok", "err:reqwest"}

\* two descriptors match, the first of them not at the head of the list
LaterMatchIgnored ==
    /\ stage = "balance_sheets" /\ outcome = "ok"
    /\ Cardinality(Matching) >= 2
    /\ FirstMatching > 1
    /\ Len(SentBySelector) = 1

\* the descriptors whose report carried neither file name
WithoutFile == {j \in 1..Len(Origin) : NoFile(Origin[j].report)}

\* C10 as stated: balance_sheets never fetches the URL of a descriptor whose
\* file name was empty.
EmptyFileNeverFetched ==
    stage = "balance_sheets" =>
        \A k \in 1..Len(SentBySelector) :
            \A j \in WithoutFile : SentBySelector[k] # reports[j][2]

\* C10 amended: a report with neither file name does not make master_reports
\* fail, its descriptor's URL is the base URL of the manifest; balance_sheets
\* does not skip it: when it is the first descriptor whose short name matches,
\* that base URL is what balance_sheets fetches.
EmptyFileFetched ==
    /\ (stage = "master_reports" /\ outcome = "ok") =>
          \A j \in WithoutFile : j <= Len(acc) /\ acc[j][2] = Origin[j].base
    /\ (stage = "balance_sheets" /\ outcome # "none" /\ Matching # {}) =>
          (FirstMatching \in WithoutFile =>
              SentBySelector = <<Origin[FirstMatching].base>>)

\* balance_sheets has fetched the base URL for a matching report without files
BaseUrlFetched ==
    /\ stage = "balance_sheets" /\ outcome = "ok"
    /\ Matching # {}
    /\ FirstMatching \in WithoutFile
    /\ SentBySelector = <<SecGov \o Slash \o Dir1 \o Slash>>

\* the rows of the first table of the document given to the extractor
FirstTableRows ==
    IF input.format = "html" /\ input.tables # <<>> THEN input.tables[1] ELSE <<>>

IsHeaderRow(row) == Len(row.ths) >= 1
IsSectionRow(row) == Len(row.ths) = 0 /\ Len(row.tds) >= 1 /\ row.strongs >= 1
IsDataRow(row) == Len(row.ths) = 0 /\ Len(row.tds) >= 1 /\ row.strongs = 0
IsSkippedRow(row) == Len(row.ths) = 0 /\ Len(row.tds) = 0

\* the text of the model's two cells, joined and trimmed
TextOf(cell) == IF cell = CellA THEN <<"T", "o", "t", "a", "l", " ", "a", "s", "s", "e", "t", "s">> ELSE <<"1", "0">>

\* C8: every row of the first table is a header row (it has a header cell), else
\* a section row (data cells and emphasis), else a data row (data cells, no
\* emphasis), else skipped; each kind is appended to its own output in row order,
\* the four counts add up to the number of rows, and without a table all three
\* outputs are empty.
RowsClassified ==
    (stage = "parse_html_statement_data" /\ outcome = "ok") =>
        LET hs == SelectSeq(FirstTableRows, IsHeaderRow)
            ss == SelectSeq(FirstTableRows, IsSectionRow)
            ds == SelectSeq(FirstTableRows, IsDataRow)
            skipped == SelectSeq(FirstTableRows, IsSkippedRow)
        IN  /\ table.headers =
                  [k \in 1..Len(hs) |-> [c \in 1..Len(hs[k].ths) |-> TextOf(hs[k].ths[c])]]
            /\ table.sections = [k \in 1..Len(ss) |-> TextOf(ss[k].tds[1])]
            /\ table.data =
                  [k \in 1..Len(ds) |-> [c \in 1..Len(ds[k].tds) |-> TextOf(ds[k].tds[c])]]
            /\ Len(table.headers) + Len(table.sections) + Len(table.data)
                  + Len(skipped) = Len(FirstTableRows)
            /\ (FirstTableRows # <<>> => Len(table.printed) = Len(skipped))

\* a row with header cells, data cells and emphasis became a header row, and the
\* row after it, with no cell at all, was skipped
HeaderRowWithEmphasis ==
    /\ stage = "parse_html_statement_data" /\ outcome = "ok"
    /\ Len(FirstTableRows) = 2
    /\ FirstTableRows[1].ths # <<>> /\ FirstTableRows[1].tds # <<>>
    /\ FirstTableRows[1].strongs = 1
    /\ IsSkippedRow(FirstTableRows[2])
    /\ Len(table.headers) = 1 /\ table.sections = <<>> /\ table.data = <<>>

=============================================================================
